---- MODULE Spec2Model ----
(***************************************************************************)
(* The approved shell-command pipeline of ai/dev_agent.py and              *)
(* ai/qa_agent.py: require_approval (the approval gate) followed by        *)
(* ShellExecutor.__call__ (spawn, bounded wait, kill, drain, record).      *)
(* The two files carry the same gate and the same executor; line numbers   *)
(* in the comments are those of ai/dev_agent.py.                           *)
(*                                                                         *)
(* Strings that the code inspects character by character (the operator's   *)
(* response) are sequences of one-character strings; captured output is a  *)
(* sequence of byte values.  An optional value (timeout_ms, exit_code, a   *)
(* local not yet bound) is None or Some(v).  A child process is described  *)
(* by whether the shell is alive and by who still holds the write ends of  *)
(* its stdout/stderr pipes: the shell itself, or a descendant it forked.   *)
(***************************************************************************)
EXTENDS Integers, Sequences, FiniteSets, TLC

\* ---------------------------------------------------------------- bounds
MaxCmds == 2        \* longest command list of a request
MaxRespLen == 3     \* longest operator response, in characters
MaxTimeout == 2     \* largest timeout_ms of a request; the clock saturates there

\* ------------------------------------------------------------ input sets
None == <<>>
Some(v) == <<v>>
Val(o) == o[1]

\* os.environ.get(...) of a variable that is not set
Unset == "<unset>"

\* command strings a request may carry: the first prints "a" and a newline on
\* stdout, the second copies to stderr a file holding a byte that is not UTF-8
CommandStrings == {"echo a", "cat blob >&2"}

\* what a command writes on each stream before it exits on its own
StdoutBytes(command) == IF command = "echo a" THEN <<97, 10>> ELSE <<>>
StderrBytes(command) == IF command = "echo a" THEN <<>> ELSE <<255, 104>>

\* values of os.environ.get("SHELL_AUTO_APPROVE")
EnvValues == {Unset, "1", "0", "true"}

\* characters an operator may type
Chars == {"y", "Y", "e", "s", "S", "n", " "}

\* request.data.action.timeout_ms: absent, negative, zero, positive
TimeoutValues == {None} \cup {Some(ms) : ms \in -1 .. MaxTimeout}

\* exit codes a command may report on its own
ExitCodes == {0, 7}

\* signal number proc.kill() sends on POSIX; the reaped returncode is -SIGKILL
SIGKILL == 9

RECURSIVE SeqsUpTo(_, _)
SeqsUpTo(S, n) ==
    IF n = 0 THEN {<<>>}
    ELSE LET shorter == SeqsUpTo(S, n - 1)
         IN  shorter \cup {Append(s, x) : s \in {t \in shorter : Len(t) = n - 1}, x \in S}

\* ------------------------------------------------------ str.strip / lower
IsSpace(c) == c \in {" ", "\t", "\n"}

RECURSIVE LStrip(_)
LStrip(s) == IF s # <<>> /\ IsSpace(Head(s)) THEN LStrip(Tail(s)) ELSE s

RECURSIVE RStrip(_)
RStrip(s) ==
    IF s # <<>> /\ IsSpace(s[Len(s)]) THEN RStrip(SubSeq(s, 1, Len(s) - 1)) ELSE s

Strip(s) == RStrip(LStrip(s))

LowerChar(c) ==
    CASE c = "Y" -> "y"
      [] c = "E" -> "e"
      [] c = "S" -> "s"
      [] c = "N" -> "n"
      [] OTHER   -> c

\* a comparison that keeps the letter case
LowerIdentity(s) == s

Lower(s) == [k \in 1 .. Len(s) |-> LowerChar(s[k])]

\* line 46-47: input(...).strip().lower() in {"y", "yes"}
Approves(r) == Lower(Strip(r)) \in {<<"y">>, <<"y", "e", "s">>}

\* a bypass on any value that reads as "on"
BypassTruthy(e) == e \notin {Unset, "", "0"}

\* line 40: os.environ.get(AUTO_APPROVE_ENV) == "1"
Bypass(e) == e = "1"

\* ------------------------------------------------------ timeout and decode
\* line 77: (action.timeout_ms or 0) / 1000 or None, in seconds as num/den
Timeout(ms) ==
    LET n == IF ms = None THEN 0 ELSE Val(ms)
    IN  IF n = 0 THEN None ELSE Some([num |-> n, den |-> 1000])

\* asyncio.wait_for: the deadline of t seconds has passed after e milliseconds
DeadlineReached(e, t) == t # None /\ e * Val(t).den >= Val(t).num * 1000

\* lines 87-88: bytes.decode("utf-8", errors="ignore") on single-byte input
Decode(bs) == SelectSeq(bs, LAMBDA b : b < 128)

\* line 26/113: WORKSPACE_DIR, the cwd the executor is constructed with
cwd == "WORKSPACE_DIR"

\* ------------------------------------------------------------------ state
VARIABLES
    env,         \* os.environ["SHELL_AUTO_APPROVE"]
    pc,          \* where the call is: idle, input, spawn, wait, drain, returned, raised
    commands,    \* action.commands
    timeout_ms,  \* action.timeout_ms
    printed,     \* command lines require_approval has printed
    inputCalls,  \* times input() has been called
    resp,        \* what input() returned (local of require_approval)
    approval,    \* how require_approval ended: pending, bypassed, approved, rejected
    idx,         \* number of loop iterations begun (position in action.commands)
    procs,       \* the child processes created so far, in creation order
    elapsed,     \* milliseconds since the current wait_for began
    timed_out,   \* the loop's timed_out flag
    outputs,     \* the outputs list
    result,      \* the returned ShellResult
    error        \* the exception the call propagated

vars == <<env, pc, commands, timeout_ms, printed, inputCalls, resp, approval,
          idx, procs, elapsed, timed_out, outputs, result, error>>

NoError == "none"

\* a process just created by create_subprocess_shell (lines 67-73):
\* the shell is alive and holds the write ends of both pipes
NewProc(command) ==
    [cmd |-> command, alive |-> TRUE, holders |-> {"shell"}, returncode |-> None,
     out |-> <<>>, err |-> <<>>, wrote |-> FALSE, killed |-> FALSE,
     expired |-> FALSE, early |-> FALSE]

\* a communicate() that returns at pipe EOF without waiting for the exit
CommunicateReadyNoWait(p) == p.holders = {}

\* proc.communicate() returns once both pipes are at EOF and the process is reaped
CommunicateReady(p) == p.holders = {} /\ ~p.alive

\* a loop without the break on timeout
LoopNextNoBreak(k, n, to) == IF k >= n THEN "returned" ELSE "spawn"

\* lines 66, 104-107: next iteration, or leave the loop and return
LoopNext(k, n, to) == IF to \/ k >= n THEN "returned" ELSE "spawn"

\* a gate that notes the rejection and does not raise
AfterGateNoRaise(ok, cmds) == LoopNext(0, Len(cmds), FALSE)

\* lines 47-48, 62-66: a rejection raises, an approval enters the loop
AfterGate(ok, cmds) == IF ok THEN LoopNext(0, Len(cmds), FALSE) ELSE "raised"

\* lines 107-110
ResultAt(next, outs) ==
    IF next = "returned"
    THEN Some([output |-> outs, provider_data |-> [working_directory |-> cwd]])
    ELSE None

\* lines 90-102: the ShellCommandOutput appended for process p
OutputOf(command, p, to) ==
    [command |-> command,
     stdout  |-> Decode(p.out),
     stderr  |-> Decode(p.err),
     outcome |-> [type |-> IF to THEN "timeout" ELSE "exit", exit_code |-> p.returncode]]

Cur == procs[Len(procs)]

SetCur(p) == [procs EXCEPT ![Len(procs)] = p]

Init ==
    /\ env \in EnvValues
    /\ pc = "idle"
    /\ commands = <<>>
    /\ timeout_ms = None
    /\ printed = <<>>
    /\ inputCalls = 0
    /\ resp = None
    /\ approval = "pending"
    /\ idx = 0
    /\ procs = <<>>
    /\ elapsed = 0
    /\ timed_out = FALSE
    /\ outputs = <<>>
    /\ result = None
    /\ error = NoError

\* ------------------------------------------------------------ the gate
\* lines 60-62, 40-46: __call__ enters require_approval; with the bypass it
\* returns at once, otherwise it prints the batch and blocks in input()
Call(cmds, tmo) ==
    /\ pc = "idle"
    /\ commands' = cmds
    /\ timeout_ms' = tmo
    /\ IF Bypass(env)
       THEN /\ approval' = "bypassed"
            /\ pc' = AfterGate(TRUE, cmds)
            /\ result' = ResultAt(AfterGate(TRUE, cmds), <<>>)
            /\ UNCHANGED <<printed, inputCalls>>
       ELSE /\ printed' = cmds
            /\ inputCalls' = inputCalls + 1
            /\ pc' = "input"
            /\ UNCHANGED <<approval, result>>
    /\ UNCHANGED <<env, resp, idx, procs, elapsed, timed_out, outputs, error>>

\* lines 46-48, 64-66: input() returns r; the answer is checked
OperatorResponds(r) ==
    /\ pc = "input"
    /\ resp' = Some(r)
    /\ approval' = IF Approves(r) THEN "approved" ELSE "rejected"
    /\ error' = IF Approves(r) THEN NoError ELSE "Rejected"
    /\ pc' = AfterGate(Approves(r), commands)
    /\ result' = ResultAt(AfterGate(Approves(r), commands), <<>>)
    /\ UNCHANGED <<env, commands, timeout_ms, printed, inputCalls, idx, procs,
                   elapsed, timed_out, outputs>>

\* line 46: input() raises EOFError when standard input is closed
InputFails ==
    /\ pc = "input"
    /\ pc' = "raised"
    /\ error' = "EOFError"
    /\ UNCHANGED <<env, commands, timeout_ms, printed, inputCalls, resp, approval,
                   idx, procs, elapsed, timed_out, outputs, result>>

\* --------------------------------------------------------- the executor
\* lines 66-75: the next command is spawned; resp is out of scope by now
Spawn ==
    /\ pc = "spawn"
    /\ idx' = idx + 1
    /\ procs' = Append(procs, NewProc(commands[idx + 1]))
    /\ elapsed' = 0
    /\ timed_out' = FALSE
    /\ resp' = None
    /\ pc' = "wait"
    /\ UNCHANGED <<env, commands, timeout_ms, printed, inputCalls, approval,
                   outputs, result, error>>

\* line 67: create_subprocess_shell raises OSError (cwd gone, fork failure)
SpawnFails ==
    /\ pc = "spawn"
    /\ idx' = idx + 1
    /\ resp' = None
    /\ pc' = "raised"
    /\ error' = "OSError"
    /\ UNCHANGED <<env, commands, timeout_ms, printed, inputCalls, approval,
                   procs, elapsed, timed_out, outputs, result>>

\* time passes while wait_for is pending and neither communicate() nor the
\* timer is ready to resume the call
Tick ==
    /\ pc = "wait"
    /\ elapsed < MaxTimeout
    /\ ~CommunicateReady(Cur)
    /\ ~DeadlineReached(elapsed, Timeout(timeout_ms))
    /\ elapsed' = elapsed + 1
    /\ UNCHANGED <<env, pc, commands, timeout_ms, printed, inputCalls, resp,
                   approval, idx, procs, timed_out, outputs, result, error>>

\* lines 78-81, 87-105: communicate() completes inside wait_for; a wait_for
\* whose timeout is not positive cancels communicate() before it can complete
CommunicateDone ==
    /\ pc = "wait"
    /\ CommunicateReady(Cur)
    /\ Timeout(timeout_ms) # None => Val(Timeout(timeout_ms)).num > 0
    /\ outputs' = Append(outputs, OutputOf(commands[idx], Cur, timed_out))
    /\ pc' = LoopNext(idx, Len(commands), timed_out)
    /\ result' = ResultAt(LoopNext(idx, Len(commands), timed_out), outputs')
    /\ UNCHANGED <<env, commands, timeout_ms, printed, inputCalls, resp, approval,
                   idx, procs, elapsed, timed_out, error>>

\* lines 82-84: wait_for raises TimeoutError and proc.kill() is called.  A live
\* process dies of SIGKILL; a process that has already exited is left alone.
TimeoutKill ==
    /\ pc = "wait"
    /\ DeadlineReached(elapsed, Timeout(timeout_ms))
    /\ procs' = SetCur(IF Cur.alive
                       THEN [Cur EXCEPT !.alive = FALSE,
                                        !.returncode = Some(0 - SIGKILL),
                                        !.holders = @ \ {"shell"},
                                        !.killed = TRUE,
                                        !.expired = TRUE]
                       ELSE [Cur EXCEPT !.expired = TRUE])
    /\ pc' = "drain"
    /\ UNCHANGED <<env, commands, timeout_ms, printed, inputCalls, resp, approval,
                   idx, elapsed, timed_out, outputs, result, error>>

\* line 83: the process exited and its pipes closed while the timer fired, the
\* transport is already finished and proc.kill() raises ProcessLookupError
TimeoutKillFails ==
    /\ pc = "wait"
    /\ DeadlineReached(elapsed, Timeout(timeout_ms))
    /\ CommunicateReady(Cur)
    /\ procs' = SetCur([Cur EXCEPT !.expired = TRUE])
    /\ pc' = "raised"
    /\ error' = "ProcessLookupError"
    /\ UNCHANGED <<env, commands, timeout_ms, printed, inputCalls, resp, approval,
                   idx, elapsed, timed_out, outputs, result>>

\* lines 84-85, 87-107: the second communicate() returns, the command is
\* recorded as timed out and the loop is left
Drain ==
    /\ pc = "drain"
    /\ CommunicateReady(Cur)
    /\ timed_out' = TRUE
    /\ outputs' = Append(outputs, OutputOf(commands[idx], Cur, TRUE))
    /\ pc' = LoopNext(idx, Len(commands), TRUE)
    /\ result' = ResultAt(LoopNext(idx, Len(commands), TRUE), outputs')
    /\ UNCHANGED <<env, commands, timeout_ms, printed, inputCalls, resp, approval,
                   idx, procs, elapsed, error>>

\* ------------------------------------------------ the child processes
ChildUnchanged ==
    UNCHANGED <<env, pc, commands, timeout_ms, printed, inputCalls, resp, approval,
                idx, elapsed, timed_out, outputs, result, error>>

\* the command writes its output into the pipes
ChildWrite(k) ==
    /\ procs[k].holders # {}
    /\ ~procs[k].wrote
    /\ procs' = [procs EXCEPT ![k] =
                    [@ EXCEPT !.wrote = TRUE,
                              !.out = StdoutBytes(procs[k].cmd),
                              !.err = StderrBytes(procs[k].cmd)]]
    /\ ChildUnchanged

\* the shell forks a command ("sleep 5", "cmd &", a pipeline): the descendant
\* inherits the write ends of stdout and stderr
ChildFork(k) ==
    /\ procs[k].alive
    /\ "shell" \in procs[k].holders
    /\ "desc" \notin procs[k].holders
    /\ procs' = [procs EXCEPT ![k].holders = @ \cup {"desc"}]
    /\ ChildUnchanged

\* the shell closes its own stdout and stderr and keeps running
ChildCloseStreams(k) ==
    /\ procs[k].alive
    /\ "shell" \in procs[k].holders
    /\ procs' = [procs EXCEPT ![k].holders = @ \ {"shell"}]
    /\ ChildUnchanged

\* the shell exits on its own with the given code, its output written
ChildExit(k, code) ==
    /\ procs[k].alive
    /\ procs[k].wrote
    /\ procs' = [procs EXCEPT ![k] =
                    [@ EXCEPT !.alive = FALSE,
                              !.returncode = Some(code),
                              !.holders = @ \ {"shell"},
                              !.early = /\ k = Len(procs)
                                        /\ pc = "wait"
                                        /\ ~DeadlineReached(elapsed, Timeout(timeout_ms))]]
    /\ ChildUnchanged

\* the descendant exits (or closes its streams)
DescExit(k) ==
    /\ "desc" \in procs[k].holders
    /\ procs' = [procs EXCEPT ![k].holders = @ \ {"desc"}]
    /\ ChildUnchanged

Child ==
    \E k \in 1 .. Len(procs) :
        \/ ChildWrite(k)
        \/ ChildFork(k)
        \/ ChildCloseStreams(k)
        \/ \E code \in ExitCodes : ChildExit(k, code)
        \/ DescExit(k)

Executor ==
    \/ Spawn
    \/ SpawnFails
    \/ Tick
    \/ CommunicateDone
    \/ TimeoutKill
    \/ TimeoutKillFails
    \/ Drain

\* the requests the framework may send
Request ==
    /\ pc = "idle"
    /\ \E cmds \in SeqsUpTo(CommandStrings, MaxCmds), tmo \in TimeoutValues : Call(cmds, tmo)

\* the answers the operator may type
Operator ==
    /\ pc = "input"
    /\ \E r \in SeqsUpTo(Chars, MaxRespLen) : OperatorResponds(r)

Next ==
    \/ Request
    \/ Operator
    \/ InputFails
    \/ Executor
    \/ Child

Spec == Init /\ [][Next]_vars

\* the event loop runs every step of the call that is ready and the clock
\* advances; nothing obliges a child or its descendants to exit
FairSpec == Spec /\ WF_vars(Executor)

\* ---------------------------------------------------------- properties
Indices(q) == 1 .. Len(q)

PositiveTimeout == timeout_ms # None /\ Val(timeout_ms) > 0

\* "y", "Y" and "yes" in every letter case
YesAnyCase ==
    {<<"y">>, <<"Y">>}
        \cup {<<a, b, c>> : a \in {"y", "Y"}, b \in {"e", "E"}, c \in {"s", "S"}}

\* r is a member of YesAnyCase with only whitespace before and after it
YesPadded(r) ==
    \E i, j \in Indices(r) :
        /\ SubSeq(r, i, j) \in YesAnyCase
        /\ \A k \in Indices(r) \ (i .. j) : r[k] \in {" ", "\t", "\n"}

\* index of the first command whose wait timed out, else the number of commands
FirstTimedOut ==
    IF \E k \in Indices(procs) : procs[k].expired
    THEN CHOOSE k \in Indices(procs) :
            procs[k].expired /\ \A m \in 1 .. k - 1 : ~procs[m].expired
    ELSE Len(commands)

\* C1: a rejected call raises the rejection error and has spawned no process;
\* a process exists only once the batch was approved or the gate bypassed.
C1_RejectionSpawnsNothing ==
    /\ approval = "rejected" =>
          pc = "raised" /\ error = "Rejected" /\ procs = <<>> /\ result = None
    /\ procs # <<>> => approval \in {"approved", "bypassed"}

C1_Witness ==
    approval = "rejected" /\ pc = "raised" /\ Len(commands) = 2 /\ ~Bypass(env)

\* C2: every recorded outcome is exit or timeout, and a timeout outcome (in
\* particular that of a command the executor killed) carries no exit code
\* (checked of the requests with timeout_ms > 0).
C2_TimeoutCarriesNoExitCode ==
    \A j \in Indices(outputs) :
        PositiveTimeout =>
        /\ outputs[j].outcome.type \in {"exit", "timeout"}
        /\ outputs[j].outcome.type = "timeout" => outputs[j].outcome.exit_code = None
        /\ procs[j].killed => outputs[j].outcome = [type |-> "timeout", exit_code |-> None]

\* C3: the commands of the returned output are the request's commands up to and
\* including the first one that timed out, or all of them, in request order.
C3_OutputIsPrefix ==
    pc = "returned" =>
        [j \in Indices(Val(result).output) |-> Val(result).output[j].command]
            = SubSeq(commands, 1, FirstTimedOut)

C3_Witness ==
    /\ pc = "returned"
    /\ Len(commands) = 2
    /\ Len(Val(result).output) = 1
    /\ procs[1].expired

\* C4: a call that ends in an error ends in the rejection error.
C4_OnlyRejectionRaises == pc = "raised" => error = "Rejected"

\* C5 as stated: without the bypass, the gate approves exactly the responses
\* "y", "Y" and "yes" in any letter case and rejects every other response.
C5_ExactResponse ==
    resp # None =>
        /\ approval \in {"approved", "rejected"}
        /\ approval = "approved" <=> Val(resp) \in YesAnyCase

\* C5 amended: without the bypass, the gate approves exactly the responses that
\* are "y" or "yes" in any letter case once leading and trailing whitespace is
\* removed, and rejects every other response, the empty one included.
C5_StrippedResponse ==
    resp # None =>
        /\ approval \in {"approved", "rejected"}
        /\ approval = "approved" <=> YesPadded(Val(resp))

C5_Witness ==
    /\ resp # None
    /\ approval = "approved"
    /\ Val(resp) \notin YesAnyCase
    /\ ~Bypass(env)

\* C6: the gate is bypassed, with nothing printed and no input read, exactly
\* when SHELL_AUTO_APPROVE is "1"; for every other value the whole batch is
\* printed, input is read once, and nothing runs before the operator approved.
C6_BypassIffLiteralOne ==
    pc # "idle" =>
        IF env = "1"
        THEN printed = <<>> /\ inputCalls = 0 /\ approval = "bypassed"
        ELSE /\ printed = commands
             /\ inputCalls = 1
             /\ approval # "bypassed"
             /\ (procs # <<>> \/ pc \in {"spawn", "wait", "drain", "returned"})
                    => approval = "approved"

C6_Witness ==
    env = "true" /\ pc = "input" /\ printed = commands /\ Len(commands) = 2

\* C7: processes are created in list order, one per command, a process is
\* created only after every earlier one is dead, drained and recorded, and at
\* most one process of the request is alive.
C7_OneChildAtATime ==
    /\ Cardinality({k \in Indices(procs) : procs[k].alive}) <= 1
    /\ \A k \in Indices(procs) : procs[k].cmd = commands[k]
    /\ \A k \in 1 .. Len(procs) - 1 :
          ~procs[k].alive /\ procs[k].holders = {} /\ k <= Len(outputs)

C7_Witness == Len(procs) = 2 /\ procs[2].alive /\ Len(outputs) = 1

\* C8: with timeout_ms absent, zero or negative no wait times out, no process
\* is killed and no outcome is timeout; with timeout_ms > 0 a wait times out
\* after timeout_ms milliseconds.
C8_BoundOnlyWhenPositive ==
    /\ ~PositiveTimeout =>
          /\ \A k \in Indices(procs) : ~procs[k].killed /\ ~procs[k].expired
          /\ \A j \in Indices(outputs) : outputs[j].outcome.type # "timeout"
    /\ PositiveTimeout =>
          \A k \in Indices(procs) : procs[k].expired => elapsed = Val(timeout_ms)

\* C9: a command that exited before its deadline (or ran without one) is
\* recorded as exit with the code the process reported; every command is
\* spawned once, and without a timeout every command of the batch is recorded.
C9_ExitCodeReported ==
    /\ \A j \in Indices(outputs) :
          procs[j].early =>
              outputs[j].outcome = [type |-> "exit", exit_code |-> procs[j].returncode]
    /\ \A k \in Indices(procs) : procs[k].cmd = commands[k]
    /\ (pc = "returned" /\ \A k \in Indices(procs) : ~procs[k].expired)
          => Len(outputs) = Len(commands)

\* C10: an approved call with timeout_ms > 0 that has begun to run commands
\* eventually ends (checked of the weaker "returns or raises").
C10_CallEnds ==
    (pc \in {"spawn", "wait", "drain"} /\ PositiveTimeout)
        ~> (pc \in {"returned", "raised"})

====
